---- MODULE Spec2Model ----
\* A model of libzim-rs: the decoders of the ZIM container format
\* (zimheader.rs, zimfile.rs, cluster.rs, dirent.rs) run against an in-memory
\* byte source (std::io::Cursor over a byte vector).
\*
\* Bytes are the integers 0..255.  A byte source is a sequence of bytes; a read
\* position p counts the bytes before it, so the next byte read is data[p+1].
\* Every decoding function is an operator that returns a record
\*   [err, val, pos, log]
\* err = Ok on success and the error text otherwise, val the decoded value, pos
\* the read position it leaves (on a failed read: the position the failing
\* read_exact was issued at), log the seeks and reads it issued, in order.
\*
\* TLC's integers are 32 bits wide: the sources the specifications draw keep
\* every decoded u32/u64 below 2^31, so that no decoded value is altered by the
\* checker's arithmetic.
EXTENDS Integers, Sequences, FiniteSets, TLC

VARIABLES
    data,              \* the bytes of the source
    pos,               \* the source's read position
    pc,                \* the call or stage that runs next
    iolog,             \* the seeks and reads issued on the source, in order
    header,            \* parse_bytes: the local `header`
    mime_types,        \* parse_bytes: the local `mime_types`
    cluster_pointers,  \* parse_bytes: the local `cluster_pointers`
    clusters,          \* parse_bytes: the local `clusters`
    dirent_pointers,   \* parse_bytes: the local `dirent_pointers`
    result,            \* what the parse call returned: [err, val]
    overflow_checks,   \* whether the build panics on integer overflow
    index,             \* the argument of the last accessor call
    ret                \* what the last accessor call returned: [err, val]

vars == <<data, pos, pc, iolog, header, mime_types, cluster_pointers,
          clusters, dirent_pointers, result, overflow_checks, index, ret>>

----------------------------------------------------------------------------
\* Program constants.

ZIM_MAGIC_NUMBER == 72173914      \* 0x044d495a
HEADER_SIZE == 80
MAX_BLOBS == 1000000
REDIRECT_MIME_TYPE == 65535       \* 0xffff
LINK_TARGET_MIME_TYPE == 65534    \* 0xfffe
DELETED_MIME_TYPE == 65533        \* 0xfffd

\* Error texts.  ShortRead is the text of io::ErrorKind::UnexpectedEof as
\* read_exact reports it.
Ok == "ok"
ShortRead == "failed to fill whole buffer"
InvalidMagicNumber == "Invalid magic number"
InvalidMimeListPosition == "Invalid mime list position"
MimeListNotTerminated == "Mime list not null terminated"
InvalidUtf8InMimeType == "Invalid UTF-8 in mime type"
InvalidUtf8 == "invalid utf-8 sequence"
InvalidCompressionType == "Invalid compression type"
TooManyBlobs == "Too many blobs in cluster"
Panic == "panic"

None == "None"

----------------------------------------------------------------------------
\* Little-endian integers.

\* uN::from_le_bytes
RECURSIVE from_le_bytes(_)
from_le_bytes(b) ==
    IF b = <<>> THEN 0 ELSE Head(b) + 256 * from_le_bytes(Tail(b))

\* uN::to_le_bytes, n bytes wide (used to lay sources out).
RECURSIVE to_le_bytes(_, _)
to_le_bytes(v, n) ==
    IF n = 0 THEN <<>> ELSE <<v % 256>> \o to_le_bytes(v \div 256, n - 1)

Min(a, b) == IF a <= b THEN a ELSE b
Max(a, b) == IF a >= b THEN a ELSE b

----------------------------------------------------------------------------
\* The byte source: Read::read_exact and Seek::seek(SeekFrom::Start) of a
\* Cursor.

SeekOp(off) == <<"seek", off>>
ReadOp(p, n) == <<"read", p, n>>

\* read_exact of n bytes at position p: all n bytes, or an error.  A position
\* past the end of the source has nothing to read.
ReadExactOk(d, p, n) == n = 0 \/ p + n <= Len(d)
ReadExactBytes(d, p, n) == SubSeq(d, p + 1, p + n)

\* The position a failed read_exact leaves is unspecified by Read: the
\* implementations either leave it where it was or consume what was there.
AfterFailedRead(d, p) == {p, Max(p, Len(d))}

----------------------------------------------------------------------------
\* zimheader.rs

NoHeader ==
    [magic_number |-> 0, major_version |-> 0, minor_version |-> 0,
     uuid |-> <<>>, article_count |-> 0, cluster_count |-> 0,
     path_ptr_pos |-> 0, title_idx_pos |-> 0, cluster_ptr_pos |-> 0,
     mime_list_pos |-> 0, main_page |-> 0, layout_page |-> 0,
     checksum_pos |-> 0]

\* buffer[a..b] of the source text: bytes a (inclusive) to b (exclusive).
Slice(buffer, a, b) == SubSeq(buffer, a + 1, b)

HeaderOf(buffer) ==
    [magic_number |-> from_le_bytes(Slice(buffer, 0, 4)),
     major_version |-> from_le_bytes(Slice(buffer, 4, 6)),
     minor_version |-> from_le_bytes(Slice(buffer, 6, 8)),
     uuid |-> Slice(buffer, 8, 24),
     article_count |-> from_le_bytes(Slice(buffer, 24, 28)),
     cluster_count |-> from_le_bytes(Slice(buffer, 28, 32)),
     path_ptr_pos |-> from_le_bytes(Slice(buffer, 32, 40)),
     title_idx_pos |-> from_le_bytes(Slice(buffer, 40, 48)),
     cluster_ptr_pos |-> from_le_bytes(Slice(buffer, 48, 56)),
     mime_list_pos |-> from_le_bytes(Slice(buffer, 56, 64)),
     main_page |-> from_le_bytes(Slice(buffer, 64, 68)),
     layout_page |-> from_le_bytes(Slice(buffer, 68, 72)),
     checksum_pos |-> from_le_bytes(Slice(buffer, 72, 80))]

\* MagicMatches with the constant's bytes taken in big-endian order.
MagicMatchesBigEndian(magic_number) ==
    magic_number = from_le_bytes(<<4, 77, 73, 90>>)

\* The magic-number test of parse_header.
MagicMatches(magic_number) == magic_number = ZIM_MAGIC_NUMBER

\* ZimHeader::parse_header
parse_header(d, p) ==
    LET log == <<ReadOp(p, HEADER_SIZE)>> IN
    IF ~ReadExactOk(d, p, HEADER_SIZE)
    THEN [err |-> ShortRead, val |-> NoHeader, pos |-> p, log |-> log]
    ELSE LET buffer == ReadExactBytes(d, p, HEADER_SIZE)
             magic_number == from_le_bytes(Slice(buffer, 0, 4))
         IN  IF ~MagicMatches(magic_number)
             THEN [err |-> InvalidMagicNumber, val |-> NoHeader,
                   pos |-> p + HEADER_SIZE, log |-> log]
             ELSE [err |-> Ok, val |-> HeaderOf(buffer),
                   pos |-> p + HEADER_SIZE, log |-> log]

----------------------------------------------------------------------------
\* String::from_utf8: whether a byte string is well-formed UTF-8 (the table
\* of the Unicode standard, which core::str::from_utf8 implements).

IsCont(b) == b >= 128 /\ b <= 191

RECURSIVE is_utf8(_)
is_utf8(b) ==
    IF b = <<>> THEN TRUE
    ELSE LET h == b[1]
             n == Len(b)
         IN  IF h <= 127 THEN is_utf8(Tail(b))
             ELSE IF h >= 194 /\ h <= 223
             THEN n >= 2 /\ IsCont(b[2]) /\ is_utf8(SubSeq(b, 3, n))
             ELSE IF h >= 224 /\ h <= 239
             THEN /\ n >= 3
                  /\ IsCont(b[2]) /\ IsCont(b[3])
                  /\ (h = 224 => b[2] >= 160)
                  /\ (h = 237 => b[2] <= 159)
                  /\ is_utf8(SubSeq(b, 4, n))
             ELSE IF h >= 240 /\ h <= 244
             THEN /\ n >= 4
                  /\ IsCont(b[2]) /\ IsCont(b[3]) /\ IsCont(b[4])
                  /\ (h = 240 => b[2] >= 144)
                  /\ (h = 244 => b[2] <= 143)
                  /\ is_utf8(SubSeq(b, 5, n))
             ELSE FALSE

\* buffer[start..].iter().position(|&c| c == 0): the number of bytes before
\* the first 0x00 at or after start, or -1 (Option::None) when there is none.
RECURSIVE position_of_nul(_, _, _)
position_of_nul(buffer, start, len) ==
    IF start + len >= Len(buffer) THEN -1
    ELSE IF buffer[start + len + 1] = 0 THEN len
    ELSE position_of_nul(buffer, start, len + 1)

----------------------------------------------------------------------------
\* zimfile.rs

\* The end of the MIME region (parse_mime_types, end_pos).
mime_end_pos(h) ==
    LET e1 == IF h.title_idx_pos > 0
              THEN Min(h.path_ptr_pos, h.title_idx_pos)
              ELSE h.path_ptr_pos
    IN  Min(e1, h.cluster_ptr_pos)

\* InvalidMimeBounds with < for <=: an empty region is let through.
InvalidMimeBoundsStrict(end_pos, start_pos) == end_pos < start_pos

\* The bounds test of parse_mime_types.
InvalidMimeBounds(end_pos, start_pos) == end_pos <= start_pos

\* The cursor test that ends the list (buffer[start] == 0).
AtListEnd(buffer, start) == buffer[start + 1] = 0

\* NextStart that leaves the cursor on the terminator.
NextStartOnTerminator(start, len) == start + len

\* The cursor's advance past a string of len bytes and its terminator.
NextStart(start, len) == start + len + 1

\* The split loop of parse_mime_types: [err, val].
RECURSIVE split_mime_types(_, _, _)
split_mime_types(buffer, start, mimes) ==
    IF ~(start < Len(buffer)) THEN [err |-> Ok, val |-> mimes]
    ELSE IF AtListEnd(buffer, start) THEN [err |-> Ok, val |-> mimes]
    ELSE LET len == position_of_nul(buffer, start, 0) IN
         IF len = -1 THEN [err |-> MimeListNotTerminated, val |-> <<>>]
         ELSE LET s == Slice(buffer, start, start + len) IN
              IF ~is_utf8(s)
              THEN [err |-> InvalidUtf8InMimeType, val |-> <<>>]
              ELSE split_mime_types(buffer, NextStart(start, len),
                                    Append(mimes, s))

\* ZimFile::parse_mime_types
parse_mime_types(d, p, h) ==
    LET end_pos == mime_end_pos(h)
        start_pos == h.mime_list_pos
    IN  IF InvalidMimeBounds(end_pos, start_pos)
        THEN [err |-> InvalidMimeListPosition, val |-> <<>>, pos |-> p,
              log |-> <<>>]
        ELSE LET size == end_pos - start_pos
                 log == <<SeekOp(start_pos), ReadOp(start_pos, size)>>
             IN  IF ~ReadExactOk(d, start_pos, size)
                 THEN [err |-> ShortRead, val |-> <<>>, pos |-> start_pos,
                       log |-> log]
                 ELSE LET r == split_mime_types(
                                   ReadExactBytes(d, start_pos, size), 0, <<>>)
                      IN  [err |-> r.err, val |-> r.val,
                           pos |-> start_pos + size, log |-> log]

\* The width in bytes of one pointer-table entry.
PointerWidth == 8

\* The read loop of parse_dirent_pointers and parse_cluster_pointers: n more
\* entries from position p.
RECURSIVE read_pointers(_, _, _, _, _)
read_pointers(d, p, n, pointers, log) ==
    IF n = 0 THEN [err |-> Ok, val |-> pointers, pos |-> p, log |-> log]
    ELSE LET log2 == Append(log, ReadOp(p, PointerWidth)) IN
         IF ~ReadExactOk(d, p, PointerWidth)
         THEN [err |-> ShortRead, val |-> <<>>, pos |-> p, log |-> log2]
         ELSE read_pointers(d, p + PointerWidth, n - 1,
                  Append(pointers,
                         from_le_bytes(ReadExactBytes(d, p, PointerWidth))),
                  log2)

\* ZimFile::parse_dirent_pointers
parse_dirent_pointers(d, h) ==
    read_pointers(d, h.path_ptr_pos, h.article_count, <<>>,
                  <<SeekOp(h.path_ptr_pos)>>)

\* parse_cluster_pointers with the entry count of the other table.
parse_cluster_pointers_article_count(d, h) ==
    read_pointers(d, h.cluster_ptr_pos, h.article_count, <<>>,
                  <<SeekOp(h.cluster_ptr_pos)>>)

\* ZimFile::parse_cluster_pointers
parse_cluster_pointers(d, h) ==
    read_pointers(d, h.cluster_ptr_pos, h.cluster_count, <<>>,
                  <<SeekOp(h.cluster_ptr_pos)>>)

----------------------------------------------------------------------------
\* cluster.rs

NoCluster == [compression |-> None, is_extended |-> FALSE, blob_offsets |-> <<>>]

\* compression_val_of with the mask 0x07.
compression_val_of_mask7(compression_byte) == compression_byte % 8

\* compression_byte & 0x0F
compression_val_of(compression_byte) == compression_byte % 16

\* (compression_byte & 0x10) != 0
is_extended_of(compression_byte) == (compression_byte \div 16) % 2 = 1

\* The match of Cluster::parse on the low nibble; "" stands for the arm that
\* returns the error.
compression_of(compression_val) ==
    CASE compression_val = 1 -> "None"
      [] compression_val = 2 -> "Zip"
      [] compression_val = 3 -> "Bzip2"
      [] compression_val = 4 -> "Lzma"
      [] compression_val = 5 -> "Zstd"
      [] OTHER -> ""

\* The element width of the offset table.
offset_width(is_extended) == IF is_extended THEN 8 ELSE 4

\* too_many_blobs with >= for >.
too_many_blobs_inclusive(count) == count >= MAX_BLOBS

\* The sanity check on the announced number of offsets.
too_many_blobs(count) == count > MAX_BLOBS

\* The number of elements the loop `for _ in 1..count` reads.
more_offsets(count) == IF count > 1 THEN count - 1 ELSE 0

\* read_offsets that stops at the end of the source and keeps the elements
\* read so far.
RECURSIVE read_offsets_available(_, _, _, _, _, _)
read_offsets_available(d, p, w, n, blob_offsets, log) ==
    IF n = 0 THEN [err |-> Ok, val |-> blob_offsets, pos |-> p, log |-> log]
    ELSE LET log2 == Append(log, ReadOp(p, w)) IN
         IF ~ReadExactOk(d, p, w)
         THEN [err |-> Ok, val |-> blob_offsets, pos |-> p, log |-> log2]
         ELSE read_offsets_available(d, p + w, w, n - 1,
                  Append(blob_offsets, from_le_bytes(ReadExactBytes(d, p, w))),
                  log2)

\* The loops `for _ in 1..count` of Cluster::parse: n more w-byte elements
\* from position p, each appended (zero-extended) to blob_offsets.
RECURSIVE read_offsets(_, _, _, _, _, _)
read_offsets(d, p, w, n, blob_offsets, log) ==
    IF n = 0 THEN [err |-> Ok, val |-> blob_offsets, pos |-> p, log |-> log]
    ELSE LET log2 == Append(log, ReadOp(p, w)) IN
         IF ~ReadExactOk(d, p, w)
         THEN [err |-> ShortRead, val |-> <<>>, pos |-> p, log |-> log2]
         ELSE read_offsets(d, p + w, w, n - 1,
                  Append(blob_offsets, from_le_bytes(ReadExactBytes(d, p, w))),
                  log2)

\* The offset table of an uncompressed cluster (the two branches of
\* `if is_extended`, which differ in the element width w alone), read from
\* position p with `log` the reads issued so far.
read_offset_table(d, p, w, log) ==
    LET log2 == Append(log, ReadOp(p, w)) IN
    IF ~ReadExactOk(d, p, w)
    THEN [err |-> ShortRead, val |-> <<>>, pos |-> p, log |-> log2]
    ELSE LET first_offset == from_le_bytes(ReadExactBytes(d, p, w))
             count == first_offset \div w
         IN  IF too_many_blobs(count)
             THEN [err |-> TooManyBlobs, val |-> <<>>, pos |-> p + w,
                   log |-> log2]
             ELSE read_offsets(d, p + w, w, more_offsets(count),
                               <<first_offset>>, log2)

\* Cluster::parse
cluster_parse(d, p) ==
    LET log == <<ReadOp(p, 1)>> IN
    IF ~ReadExactOk(d, p, 1)
    THEN [err |-> ShortRead, val |-> NoCluster, pos |-> p, log |-> log]
    ELSE LET compression_byte == d[p + 1]
             compression_val == compression_val_of(compression_byte)
             is_extended == is_extended_of(compression_byte)
             compression == compression_of(compression_val)
         IN  IF compression = ""
             THEN [err |-> InvalidCompressionType, val |-> NoCluster,
                   pos |-> p + 1, log |-> log]
             ELSE IF compression = None
             THEN LET t == read_offset_table(d, p + 1,
                                             offset_width(is_extended), log)
                  IN  [err |-> t.err,
                       val |-> IF t.err = Ok
                               THEN [compression |-> compression,
                                     is_extended |-> is_extended,
                                     blob_offsets |-> t.val]
                               ELSE NoCluster,
                       pos |-> t.pos, log |-> t.log]
             ELSE [err |-> Ok,
                   val |-> [compression |-> compression,
                            is_extended |-> is_extended,
                            blob_offsets |-> <<>>],
                   pos |-> p + 1, log |-> log]

\* Cluster::count
cluster_count(c) ==
    IF c.blob_offsets = <<>> THEN 0 ELSE Len(c.blob_offsets) - 1

\* usize and u64 values are kept as residues modulo 2^64, the residues of the
\* top half written as negative integers: UsizeMax (2^64 - 1) is -1, and
\* wrapping addition and subtraction are the integers' own.
UsizeMax == 0 - 1

\* a < b, unsigned.
ULess(a, b) ==
    IF (a < 0) = (b < 0) THEN a < b ELSE b < 0

\* Option<u64>: <<>> is Option::None and <<v>> is Some(v).
NoSize == <<>>
Some(v) == <<v>>

\* Cluster::get_blob_size: [err, val].  An arithmetic overflow panics in a
\* build with overflow checks and wraps in a build without; an index out of
\* the vector's bounds panics in both.
get_blob_size(c, i, checks) ==
    LET len == Len(c.blob_offsets)
        i1 == i + 1
    IN  IF i = UsizeMax /\ checks THEN [err |-> Panic, val |-> NoSize]
        ELSE IF ~ULess(i1, len) THEN [err |-> Ok, val |-> NoSize]
        ELSE IF ~ULess(i, len) THEN [err |-> Panic, val |-> NoSize]
        ELSE LET a == c.blob_offsets[i1 + 1]
                 b == c.blob_offsets[i + 1]
             IN  IF ULess(a, b) /\ checks THEN [err |-> Panic, val |-> NoSize]
                 ELSE [err |-> Ok, val |-> Some(a - b)]

----------------------------------------------------------------------------
\* dirent.rs

NoDirent ==
    [mime_type |-> 0, extra_len |-> 0, namespace |-> 0, revision |-> 0,
     data |-> [kind |-> "", cluster_number |-> 0, blob_number |-> 0,
               redirect_index |-> 0],
     url |-> <<>>, title |-> <<>>, parameter |-> <<>>]

\* The variant the match of Dirent::parse selects for a mime-type code.
dirent_kind(mime_type) ==
    CASE mime_type = REDIRECT_MIME_TYPE -> "Redirect"
      [] mime_type = LINK_TARGET_MIME_TYPE -> "LinkTarget"
      [] mime_type = DELETED_MIME_TYPE -> "Deleted"
      [] OTHER -> "Content"

\* payload_size with a 4-byte read in the LinkTarget arm.
payload_size_link_target4(kind) ==
    CASE kind = "Redirect" -> 4
      [] kind = "LinkTarget" -> 4
      [] kind = "Content" -> 8
      [] OTHER -> 0

\* The number of payload bytes the match arm of that variant reads.
payload_size(kind) ==
    CASE kind = "Redirect" -> 4
      [] kind = "Content" -> 8
      [] OTHER -> 0

\* The DirentData value built from the payload bytes.
dirent_data(kind, buf) ==
    [kind |-> kind,
     cluster_number |-> IF kind = "Content"
                        THEN from_le_bytes(Slice(buf, 0, 4)) ELSE 0,
     blob_number |-> IF kind = "Content"
                     THEN from_le_bytes(Slice(buf, 4, 8)) ELSE 0,
     redirect_index |-> IF kind = "Redirect" THEN from_le_bytes(buf) ELSE 0]

\* read_null_terminated_string that pushes each byte before it tests it, so
\* that the terminator ends up in the string.
RECURSIVE read_null_terminated_string_keeps_nul(_, _, _, _)
read_null_terminated_string_keeps_nul(d, p, bytes, log) ==
    LET log2 == Append(log, ReadOp(p, 1)) IN
    IF ~ReadExactOk(d, p, 1)
    THEN [err |-> ShortRead, val |-> <<>>, pos |-> p, log |-> log2]
    ELSE IF d[p + 1] = 0
    THEN [err |-> Ok, val |-> Append(bytes, 0), pos |-> p + 1, log |-> log2]
    ELSE read_null_terminated_string_keeps_nul(d, p + 1,
                                               Append(bytes, d[p + 1]), log2)

\* read_null_terminated_string: one-byte reads up to and including the first
\* 0x00, `bytes` the bytes pushed so far.
RECURSIVE read_null_terminated_string(_, _, _, _)
read_null_terminated_string(d, p, bytes, log) ==
    LET log2 == Append(log, ReadOp(p, 1)) IN
    IF ~ReadExactOk(d, p, 1)
    THEN [err |-> ShortRead, val |-> <<>>, pos |-> p, log |-> log2]
    ELSE IF d[p + 1] = 0
    THEN [err |-> IF is_utf8(bytes) THEN Ok ELSE InvalidUtf8,
          val |-> IF is_utf8(bytes) THEN bytes ELSE <<>>,
          pos |-> p + 1, log |-> log2]
    ELSE read_null_terminated_string(d, p + 1, Append(bytes, d[p + 1]), log2)

\* The tail of Dirent::parse: the two strings and the parameter block, read
\* from position p for the decoded prefix and payload in `dd`.
dirent_strings(d, p, dd, log) ==
    LET u == read_null_terminated_string(d, p, <<>>, log) IN
    IF u.err # Ok
    THEN [err |-> u.err, val |-> NoDirent, pos |-> u.pos, log |-> u.log]
    ELSE LET t == read_null_terminated_string(d, u.pos, <<>>, u.log) IN
         IF t.err # Ok
         THEN [err |-> t.err, val |-> NoDirent, pos |-> t.pos, log |-> t.log]
         ELSE IF dd.extra_len > 0
         THEN LET log2 == Append(t.log, ReadOp(t.pos, dd.extra_len)) IN
              IF ~ReadExactOk(d, t.pos, dd.extra_len)
              THEN [err |-> ShortRead, val |-> NoDirent, pos |-> t.pos,
                    log |-> log2]
              ELSE [err |-> Ok,
                    val |-> [dd EXCEPT !.url = u.val, !.title = t.val,
                                !.parameter =
                                    ReadExactBytes(d, t.pos, dd.extra_len)],
                    pos |-> t.pos + dd.extra_len, log |-> log2]
         ELSE [err |-> Ok,
               val |-> [dd EXCEPT !.url = u.val, !.title = t.val],
               pos |-> t.pos, log |-> t.log]

\* Dirent::parse
dirent_parse(d, p) ==
    LET log == <<ReadOp(p, 8)>> IN
    IF ~ReadExactOk(d, p, 8)
    THEN [err |-> ShortRead, val |-> NoDirent, pos |-> p, log |-> log]
    ELSE LET fixed_buf == ReadExactBytes(d, p, 8)
             mime_type == from_le_bytes(Slice(fixed_buf, 0, 2))
             kind == dirent_kind(mime_type)
             n == payload_size(kind)
             log2 == IF n > 0 THEN Append(log, ReadOp(p + 8, n)) ELSE log
         IN  IF ~ReadExactOk(d, p + 8, n)
             THEN [err |-> ShortRead, val |-> NoDirent, pos |-> p + 8,
                   log |-> log2]
             ELSE dirent_strings(d, p + 8 + n,
                      [mime_type |-> mime_type,
                       extra_len |-> fixed_buf[3],
                       namespace |-> fixed_buf[4],
                       revision |-> from_le_bytes(Slice(fixed_buf, 4, 8)),
                       data |-> dirent_data(kind,
                                            ReadExactBytes(d, p + 8, n)),
                       url |-> <<>>, title |-> <<>>, parameter |-> <<>>],
                      log2)

is_redirect(de) == de.mime_type = REDIRECT_MIME_TYPE
is_link_target(de) == de.mime_type = LINK_TARGET_MIME_TYPE
is_deleted(de) == de.mime_type = DELETED_MIME_TYPE
is_article(de) == ~is_redirect(de) /\ ~is_link_target(de) /\ ~is_deleted(de)

\* get_title without the fallback to the URL.
get_title_stored(de) == de.title

\* Dirent::get_title
get_title(de) == IF de.title = <<>> THEN de.url ELSE de.title

\* parse_clusters that walks the pointer table from its last entry.
RECURSIVE parse_clusters_reversed(_, _, _, _, _, _)
parse_clusters_reversed(d, p, ptrs, i, cs, log) ==
    IF i = Len(ptrs) THEN [err |-> Ok, val |-> cs, pos |-> p, log |-> log]
    ELSE LET offset == ptrs[Len(ptrs) - i]
             c == cluster_parse(d, offset)
             log2 == log \o <<SeekOp(offset)>> \o c.log
         IN  IF c.err # Ok
             THEN [err |-> c.err, val |-> <<>>, pos |-> c.pos, log |-> log2]
             ELSE parse_clusters_reversed(d, c.pos, ptrs, i + 1,
                                          Append(cs, c.val), log2)

\* ZimFile::parse_clusters: one seek and one Cluster::parse per pointer, in
\* table order, `i` the pointers done so far.
RECURSIVE parse_clusters(_, _, _, _, _, _)
parse_clusters(d, p, ptrs, i, cs, log) ==
    IF i = Len(ptrs) THEN [err |-> Ok, val |-> cs, pos |-> p, log |-> log]
    ELSE LET offset == ptrs[i + 1]
             c == cluster_parse(d, offset)
             log2 == log \o <<SeekOp(offset)>> \o c.log
         IN  IF c.err # Ok
             THEN [err |-> c.err, val |-> <<>>, pos |-> c.pos, log |-> log2]
             ELSE parse_clusters(d, c.pos, ptrs, i + 1, Append(cs, c.val),
                                 log2)

----------------------------------------------------------------------------
\* The calls as steps of a state machine.

Pending == [err |-> "pending", val |-> None]
NoRet == [err |-> "none", val |-> <<>>]

\* The read position a call that returned r leaves.
PosAfter(d, r) ==
    IF r.err = ShortRead THEN AfterFailedRead(d, r.pos) ELSE {r.pos}

\* Propagate that notes the error and goes on to the last stage.
PropagateAndGoOn(r) ==
    /\ result' = [err |-> r.err, val |-> None]
    /\ pc' = "parse_dirent_pointers"

\* A stage of parse_bytes returned Err: `?` returns it from parse_bytes.
Propagate(r) ==
    /\ result' = [err |-> r.err, val |-> None]
    /\ pc' = "done"

\* let header = ZimHeader::parse_header(reader)?;
ParseHeader ==
    /\ pc = "parse_header"
    /\ LET r == parse_header(data, pos) IN
       /\ iolog' = iolog \o r.log
       /\ pos' \in PosAfter(data, r)
       /\ IF r.err = Ok
          THEN /\ header' = r.val
               /\ pc' = "parse_mime_types"
               /\ UNCHANGED result
          ELSE /\ Propagate(r)
               /\ UNCHANGED header
    /\ UNCHANGED <<data, mime_types, cluster_pointers, clusters,
                   dirent_pointers, overflow_checks, index, ret>>

\* let mime_types = ZimFile::parse_mime_types(reader, &header)?;
ParseMimeTypes ==
    /\ pc = "parse_mime_types"
    /\ LET r == parse_mime_types(data, pos, header) IN
       /\ iolog' = iolog \o r.log
       /\ pos' \in PosAfter(data, r)
       /\ IF r.err = Ok
          THEN /\ mime_types' = r.val
               /\ pc' = "parse_cluster_pointers"
               /\ UNCHANGED result
          ELSE /\ Propagate(r)
               /\ UNCHANGED mime_types
    /\ UNCHANGED <<data, header, cluster_pointers, clusters, dirent_pointers,
                   overflow_checks, index, ret>>

\* let cluster_pointers = ZimFile::parse_cluster_pointers(reader, &header)?;
ParseClusterPointers ==
    /\ pc = "parse_cluster_pointers"
    /\ LET r == parse_cluster_pointers(data, header) IN
       /\ iolog' = iolog \o r.log
       /\ pos' \in PosAfter(data, r)
       /\ IF r.err = Ok
          THEN /\ cluster_pointers' = r.val
               /\ pc' = "parse_clusters"
               /\ UNCHANGED result
          ELSE /\ Propagate(r)
               /\ UNCHANGED cluster_pointers
    /\ UNCHANGED <<data, header, mime_types, clusters, dirent_pointers,
                   overflow_checks, index, ret>>

\* let clusters = ZimFile::parse_clusters(reader, &cluster_pointers)?;
ParseClusters ==
    /\ pc = "parse_clusters"
    /\ LET r == parse_clusters(data, pos, cluster_pointers, 0, <<>>, <<>>) IN
       /\ iolog' = iolog \o r.log
       /\ pos' \in PosAfter(data, r)
       /\ IF r.err = Ok
          THEN /\ clusters' = r.val
               /\ pc' = "parse_dirent_pointers"
               /\ UNCHANGED result
          ELSE /\ Propagate(r)
               /\ UNCHANGED clusters
    /\ UNCHANGED <<data, header, mime_types, cluster_pointers,
                   dirent_pointers, overflow_checks, index, ret>>

\* let dirent_pointers = ZimFile::parse_dirent_pointers(reader, &header)?;
\* Ok(ZimFile { header, mime_types, cluster_pointers, clusters, dirent_pointers })
ParseDirentPointers ==
    /\ pc = "parse_dirent_pointers"
    /\ LET r == parse_dirent_pointers(data, header) IN
       /\ iolog' = iolog \o r.log
       /\ pos' \in PosAfter(data, r)
       /\ IF r.err = Ok
          THEN /\ dirent_pointers' = r.val
               /\ result' = [err |-> Ok,
                             val |-> [header |-> header,
                                      mime_types |-> mime_types,
                                      cluster_pointers |-> cluster_pointers,
                                      clusters |-> clusters,
                                      dirent_pointers |-> r.val]]
               /\ pc' = "done"
          ELSE /\ Propagate(r)
               /\ UNCHANGED dirent_pointers
    /\ UNCHANGED <<data, header, mime_types, cluster_pointers, clusters,
                   overflow_checks, index, ret>>

----------------------------------------------------------------------------
\* The sources parse_bytes is run on: an 80-byte header followed by a MIME
\* region, the two pointer tables (in either order) and the clusters, cut to
\* some length.

MaxClusters == 2       \* clusters laid out in a source
MaxArticles == 2       \* dirent pointers laid out in a source

\* "text/html\0image/png\0"
MimeExample ==
    <<116, 101, 120, 116, 47, 104, 116, 109, 108, 0,
      105, 109, 97, 103, 101, 47, 112, 110, 103, 0>>

\* "a\0", the terminator, and a byte behind it; an unterminated "ab".
MimeRegions == {MimeExample, <<97, 0, 0, 98>>, <<97, 98>>}

\* Cluster images: uncompressed with a 4-byte table [8, 10] and two blob
\* bytes; Zstd | extended; uncompressed extended with table [16, 20] and a
\* blob byte; a tag with compression code 7.
ClusterImages ==
    << <<1>> \o to_le_bytes(8, 4) \o to_le_bytes(10, 4) \o <<170, 187>>,
       <<21>>,
       <<17>> \o to_le_bytes(16, 8) \o to_le_bytes(20, 8) \o <<204>>,
       <<7>> >>

\* The image of cluster i (from 0) under rotation k of ClusterImages.
ImageOf(k, i) == ClusterImages[((k + i) % Len(ClusterImages)) + 1]

RECURSIVE ImagesFrom(_, _)
ImagesFrom(k, i) ==
    IF i = MaxClusters THEN <<>> ELSE ImageOf(k, i) \o ImagesFrom(k, i + 1)

RECURSIVE ImageStart(_, _)
ImageStart(k, i) ==
    IF i = 0 THEN 0 ELSE ImageStart(k, i - 1) + Len(ImageOf(k, i - 1))

\* A pointer table: the entries i, i + 1, ... of `values`.
RECURSIVE Table(_, _)
Table(values, i) ==
    IF i > Len(values) THEN <<>>
    ELSE to_le_bytes(values[i], 8) \o Table(values, i + 1)

DirentPointerValue(i) == 1000 * (i + 1)

HeaderBytes(magic, ac, cc, ppp, tip, cpp, mlp) ==
    to_le_bytes(magic, 4) \o to_le_bytes(6, 2) \o to_le_bytes(1, 2)
    \o [i \in 1..16 |-> i]
    \o to_le_bytes(ac, 4) \o to_le_bytes(cc, 4)
    \o to_le_bytes(ppp, 8) \o to_le_bytes(tip, 8)
    \o to_le_bytes(cpp, 8) \o to_le_bytes(mlp, 8)
    \o to_le_bytes(0, 4) \o to_le_bytes(0, 4) \o to_le_bytes(0, 8)

\* The layout: where each part of the source starts.  clustersFirst puts the
\* cluster-pointer table before the dirent-pointer table.
MimeAt == HEADER_SIZE
FirstTableAt(mime) == MimeAt + Len(mime)
ClusterPtrAt(mime, clustersFirst) ==
    FirstTableAt(mime) + (IF clustersFirst THEN 0 ELSE 8 * MaxArticles)
PathPtrAt(mime, clustersFirst) ==
    FirstTableAt(mime) + (IF clustersFirst THEN 8 * MaxClusters ELSE 0)
ClustersAt(mime) == FirstTableAt(mime) + 8 * MaxClusters + 8 * MaxArticles

FullSource(magic, ac, cc, tip, mlp, mime, clustersFirst, k) ==
    LET ctab == Table([i \in 1..MaxClusters |->
                          ClustersAt(mime) + ImageStart(k, i - 1)], 1)
        dtab == Table([i \in 1..MaxArticles |-> DirentPointerValue(i - 1)], 1)
    IN  HeaderBytes(magic, ac, cc, PathPtrAt(mime, clustersFirst), tip,
                    ClusterPtrAt(mime, clustersFirst), mlp)
        \o mime
        \o (IF clustersFirst THEN ctab \o dtab ELSE dtab \o ctab)
        \o ImagesFrom(k, 0)

\* The lengths a source is cut to.
CutLengths(mime, full) ==
    {0, HEADER_SIZE - 1, HEADER_SIZE, FirstTableAt(mime) - 1,
     FirstTableAt(mime), ClustersAt(mime) - 3, Len(full) - 1, Len(full)}

\* The values the header's title_idx_pos and mime_list_pos are given: no
\* title index, one that starts inside the MIME region, or one behind both
\* pointer tables; a MIME list at its place, one byte into it, or at the
\* region's very end.
TitleIdxPositions == {0, MimeAt + 2, MimeAt + 1000}
MimeListPositions(mime) == {MimeAt, MimeAt + 1, FirstTableAt(mime)}

Sources ==
    UNION {
      UNION {
        LET full == FullSource(magic, ac, cc, tip, mlp, mime, cf, k) IN
        {SubSeq(full, 1, n) : n \in CutLengths(mime, full)} :
          mlp \in MimeListPositions(mime) } :
        magic \in {ZIM_MAGIC_NUMBER, ZIM_MAGIC_NUMBER + 1},
        ac \in {0, MaxArticles}, cc \in 0..MaxClusters,
        tip \in TitleIdxPositions,
        mime \in MimeRegions, cf \in BOOLEAN,
        k \in 0..(Len(ClusterImages) - 1) }

Init ==
    /\ data \in Sources
    /\ pos = 0
    /\ pc = "parse_header"
    /\ iolog = <<>>
    /\ header = NoHeader
    /\ mime_types = <<>>
    /\ cluster_pointers = <<>>
    /\ clusters = <<>>
    /\ dirent_pointers = <<>>
    /\ result = Pending
    /\ overflow_checks = FALSE
    /\ index = 0
    /\ ret = NoRet

Next ==
    \/ ParseHeader
    \/ ParseMimeTypes
    \/ ParseClusterPointers
    \/ ParseClusters
    \/ ParseDirentPointers

Spec == Init /\ [][Next]_vars

----------------------------------------------------------------------------
\* Properties of parse_header.

\* The first four bytes of a source of at least four bytes, little-endian.
LeadingMagic(d) == d[1] + 256 * d[2] + 65536 * d[3] + 16777216 * d[4]

\* parse_header has returned.
HeaderReturned == pc # "parse_header"

\* C1: parse_header fails with the short-read error on every source of fewer
\* than 80 bytes, whatever its first bytes; fails with the invalid-magic-number
\* error on every source of at least 80 bytes whose first four bytes are not
\* 0x044d495a little-endian; and succeeds on every other source, with
\* magic_number = 0x044d495a.
C1_HeaderClassification ==
    HeaderReturned =>
        IF Len(data) < 80
        THEN pc = "done" /\ result.err = ShortRead /\ result.val = None
             /\ header = NoHeader
        ELSE IF LeadingMagic(data) # 72173914
        THEN pc = "done" /\ result.err = InvalidMagicNumber /\ result.val = None
             /\ header = NoHeader
        ELSE header # NoHeader /\ header.magic_number = 72173914
             /\ result.err \notin {InvalidMagicNumber}

\* C1 witnesses: each of the three classes has been decided, the short one
\* on a source that carries the right magic number.
C1_Witness ==
    /\ HeaderReturned
    /\ Len(data) >= 4 /\ Len(data) < 80
    /\ LeadingMagic(data) = 72173914
    /\ result.err = ShortRead

----------------------------------------------------------------------------
\* Properties of parse_mime_types within parse_bytes.

\* parse_mime_types has been called (the header decoded) and has returned.
MimeReturned ==
    header # NoHeader /\ pc \notin {"parse_header", "parse_mime_types"}

\* The least element of a non-empty set of integers.
Least(S) == CHOOSE m \in S : \A x \in S : m <= x

\* C2: with start = mime_list_pos and end the least of path_ptr_pos,
\* cluster_ptr_pos and (when non-zero) title_idx_pos, parse_mime_types fails
\* with the invalid-bounds error exactly when end <= start, having issued no
\* seek and no read; otherwise it seeks to start and issues one read of exactly
\* end - start bytes there, which leaves the position at end when it succeeds.
C2_MimeRegionBounds ==
    MimeReturned =>
        LET start == header.mime_list_pos
            end == Least({header.path_ptr_pos, header.cluster_ptr_pos}
                         \cup (IF header.title_idx_pos # 0
                               THEN {header.title_idx_pos} ELSE {}))
        IN  IF end <= start
            THEN /\ pc = "done"
                 /\ result.err = InvalidMimeListPosition /\ result.val = None
                 /\ iolog = <<ReadOp(0, 80)>>
                 /\ pos = 80
            ELSE /\ result.err # InvalidMimeListPosition
                 /\ Len(iolog) >= 3
                 /\ iolog[2] = SeekOp(start)
                 /\ iolog[3] = ReadOp(start, end - start)
                 /\ (pc = "parse_cluster_pointers" =>
                        Len(iolog) = 3 /\ pos = end /\ end <= Len(data))
                 /\ (end > Len(data) =>
                        result.err = ShortRead /\ result.val = None)

\* C2 witnesses: the bounds were rejected with end = start, and a region
\* ended by a non-zero title_idx_pos was read.
C2_Witness ==
    /\ MimeReturned
    /\ header.title_idx_pos # 0
    /\ header.title_idx_pos < header.cluster_ptr_pos
    /\ header.title_idx_pos > header.mime_list_pos
    /\ pc = "parse_cluster_pointers"

C2_WitnessRejected ==
    /\ MimeReturned
    /\ header.cluster_ptr_pos = header.mime_list_pos
    /\ result.err = InvalidMimeListPosition

----------------------------------------------------------------------------
\* Properties of the pointer tables within parse_bytes.

\* The little-endian u64 in the 8 bytes of d after position a.
U64At(d, a) ==
    d[a + 1] + 256 * (d[a + 2] + 256 * (d[a + 3] + 256 * (d[a + 4]
      + 256 * (d[a + 5] + 256 * (d[a + 6] + 256 * (d[a + 7]
      + 256 * d[a + 8]))))))

\* A step that decodes the table of n entries at `start` into `table`.
PointerTableStep(start, n, table) ==
    LET added == SubSeq(iolog', Len(iolog) + 1, Len(iolog'))
        available == IF Len(data) > start THEN Len(data) - start ELSE 0
    IN  /\ Len(added) >= 1
        /\ added[1] = SeekOp(start)
        /\ \A j \in 2..Len(added) : added[j][1] = "read"
        /\ IF available >= 8 * n
           THEN /\ result'.err \in {Ok, "pending"}
                /\ Len(table) = n
                /\ \A i \in 0..(n - 1) : table[i + 1] = U64At(data, start + 8 * i)
                /\ Len(added) = n + 1
                /\ \A i \in 0..(n - 1) : added[i + 2] = ReadOp(start + 8 * i, 8)
                /\ pos' = start + 8 * n
           ELSE /\ result'.err = ShortRead /\ result'.val = None
                /\ pc' = "done"
                /\ table = <<>>

\* C4: parse_cluster_pointers (N = cluster_count, at cluster_ptr_pos) and
\* parse_dirent_pointers (N = article_count, at path_ptr_pos) seek once to the
\* start offset; when at least 8*N bytes are available there they return
\* exactly N values, entry i the little-endian u64 at start + 8*i, and leave
\* the read position at start + 8*N; otherwise they fail with the short-read
\* error and return no table.
C4_PointerTables ==
    [][ /\ (pc = "parse_cluster_pointers" =>
              PointerTableStep(header.cluster_ptr_pos, header.cluster_count,
                               cluster_pointers'))
        /\ (pc = "parse_dirent_pointers" =>
              PointerTableStep(header.path_ptr_pos, header.article_count,
                               dirent_pointers')) ]_vars

\* C4 witnesses: both tables decoded with two entries or more; a table cut
\* short.
C4_Witness ==
    /\ pc = "done" /\ result.err = Ok
    /\ Len(cluster_pointers) >= 2 /\ Len(dirent_pointers) >= 2
    /\ cluster_pointers[1] # cluster_pointers[2]

C4_WitnessShort ==
    /\ pc = "done" /\ result.err = ShortRead
    /\ mime_types # <<>>
    /\ header.cluster_count > 0
    /\ Len(data) > header.cluster_ptr_pos
    /\ Len(data) < header.cluster_ptr_pos + 8 * header.cluster_count

----------------------------------------------------------------------------
\* parse_mime_types on its own: the region is the whole source, the header
\* one whose bounds enclose it.

MaxMimeLen == 6        \* bytes in a drawn MIME region

\* 0x00, 'a', and the two bytes of U+00E9 (each ill-formed on its own).
MimeBytes == {0, 97, 195, 169}

MimeBuffers ==
    {MimeExample} \cup
    UNION {[1..n -> MimeBytes] : n \in 1..MaxMimeLen}

RegionHeader(n) ==
    [NoHeader EXCEPT !.magic_number = ZIM_MAGIC_NUMBER,
                     !.mime_list_pos = 0,
                     !.path_ptr_pos = n,
                     !.cluster_ptr_pos = n]

InitMime ==
    /\ data \in MimeBuffers
    /\ pos = 0
    /\ pc = "parse_mime_types"
    /\ iolog = <<>>
    /\ header = RegionHeader(Len(data))
    /\ mime_types = <<>>
    /\ cluster_pointers = <<>>
    /\ clusters = <<>>
    /\ dirent_pointers = <<>>
    /\ result = Pending
    /\ overflow_checks = FALSE
    /\ index = 0
    /\ ret = NoRet

SpecMime == InitMime /\ [][ParseMimeTypes]_vars

\* The positions of b, up to c, that hold 0x00.
Zeros(b, c) == {i \in 1..c : b[i] = 0}

\* The bytes between the 0x00 at i and the 0x00 before it (or the start).
SegmentBefore(b, i) ==
    LET before == {j \in 1..(i - 1) : b[j] = 0}
        from == IF before = {} THEN 0
                ELSE CHOOSE j \in before : \A x \in before : x <= j
    IN  SubSeq(b, from + 1, i - 1)

\* The scan cursor reaches position c of b: c is the start, or follows a
\* 0x00 with only non-empty well-formed strings before it.
CursorReaches(b, c) ==
    \/ c = 0
    \/ /\ c >= 1 /\ b[c] = 0
       /\ \A i \in Zeros(b, c) :
            SegmentBefore(b, i) # <<>> /\ is_utf8(SegmentBefore(b, i))

\* The strings of a list, each followed by its terminator.
RECURSIVE Terminated(_)
Terminated(l) ==
    IF l = <<>> THEN <<>> ELSE Head(l) \o <<0>> \o Terminated(Tail(l))

\* C3: the split returns, in order, the null-terminated strings that precede
\* the first cursor position that sits on 0x00 or on the region's end (what
\* follows is ignored), each non-empty; it fails with the not-terminated error
\* exactly when the cursor reaches a non-empty remaining segment without 0x00.
\* The region "text/html\0image/png\0" yields the two strings, and a region
\* that begins with 0x00 yields the empty list.
C3_MimeSplit ==
    pc # "parse_mime_types" =>
        LET b == data
            l == mime_types
            c == Len(Terminated(l))
        IN  /\ result.err \in {"pending", MimeListNotTerminated,
                               InvalidUtf8InMimeType}
            /\ (result.err = MimeListNotTerminated <=>
                  \E k \in 0..(Len(b) - 1) :
                      CursorReaches(b, k) /\ \A i \in (k + 1)..Len(b) : b[i] # 0)
            /\ (result.err = "pending" =>
                  /\ c <= Len(b)
                  /\ Terminated(l) = SubSeq(b, 1, c)
                  /\ (c = Len(b) \/ b[c + 1] = 0)
                  /\ \A j \in 1..Len(l) :
                        l[j] # <<>> /\ \A x \in 1..Len(l[j]) : l[j][x] # 0)
            /\ (b = MimeExample =>
                  /\ result.err = "pending"
                  /\ l = << <<116, 101, 120, 116, 47, 104, 116, 109, 108>>,
                            <<105, 109, 97, 103, 101, 47, 112, 110, 103>> >>)
            /\ (b[1] = 0 => result.err = "pending" /\ l = <<>>)

\* C3 witness: two strings were returned and the bytes behind the list's
\* terminator ignored.
C3_Witness ==
    /\ pc = "parse_cluster_pointers"
    /\ header = RegionHeader(Len(data))
    /\ Len(mime_types) = 2
    /\ Len(Terminated(mime_types)) + 1 < Len(data)

C3_WitnessNotTerminated ==
    /\ header = RegionHeader(Len(data))
    /\ result.err = MimeListNotTerminated
    /\ \E i \in 1..Len(data) : data[i] = 0

----------------------------------------------------------------------------
\* Cluster::parse, Cluster::count and Cluster::get_blob_size on their own.

MaxMoreOffsets == 3    \* table elements laid out after the first
MaxIndex == 4          \* the largest small index get_blob_size is given

\* Tags of uncompressed clusters: 0x01, 0x11, and the two with bit 0x20 set.
TableTags == {1, 17, 33, 49}

\* First offset values: announced counts of 0 and more for either width, up
\* to the counts around MAX_BLOBS.
FirstOffsets ==
    {0, 3, 4, 7, 8, 12, 16, 24,
     4 * MAX_BLOBS, 4 * MAX_BLOBS + 4, 8 * MAX_BLOBS, 8 * MAX_BLOBS + 8}

\* The values of the later table elements (5 is below every first offset
\* that announces a second element).
OffsetValues == {5, 27}

\* Two blob bytes behind the table.
BlobBytes == <<170, 187>>

RECURSIVE Elements(_, _, _)
Elements(values, i, w) ==
    IF i > Len(values) THEN <<>>
    ELSE to_le_bytes(values[i], w) \o Elements(values, i + 1, w)

\* Every non-empty prefix of a byte string.
Prefixes(full) == {SubSeq(full, 1, n) : n \in 1..Len(full)}

ClusterSources ==
    {<<tag>> : tag \in 0..255}
    \cup {<<tag>> \o BlobBytes : tag \in {2, 3, 4, 5, 18, 21}}
    \cup UNION {
           Prefixes(<<tag>>
                    \o to_le_bytes(v, offset_width(is_extended_of(tag)))
                    \o Elements(more, 1, offset_width(is_extended_of(tag)))
                    \o BlobBytes) :
             tag \in TableTags, v \in FirstOffsets,
             more \in [1..MaxMoreOffsets -> OffsetValues] }

Indexes == 0..MaxIndex \cup {UsizeMax}

InitCluster ==
    /\ data \in ClusterSources
    /\ pos = 0
    /\ pc = "cluster_parse"
    /\ iolog = <<>>
    /\ header = NoHeader
    /\ mime_types = <<>>
    /\ cluster_pointers = <<>>
    /\ clusters = <<>>
    /\ dirent_pointers = <<>>
    /\ result = Pending
    /\ overflow_checks \in BOOLEAN
    /\ index = 0
    /\ ret = NoRet

\* Cluster::parse(&mut reader)
ClusterParse ==
    /\ pc = "cluster_parse"
    /\ LET r == cluster_parse(data, pos) IN
       /\ iolog' = iolog \o r.log
       /\ pos' \in PosAfter(data, r)
       /\ result' = [err |-> r.err, val |-> IF r.err = Ok THEN r.val ELSE None]
    /\ pc' = "cluster_parsed"
    /\ UNCHANGED <<data, header, mime_types, cluster_pointers, clusters,
                   dirent_pointers, overflow_checks, index, ret>>

\* cluster.count()
Count ==
    /\ pc = "cluster_parsed"
    /\ result.err = Ok
    /\ ret' = [err |-> Ok, val |-> <<cluster_count(result.val)>>]
    /\ pc' = "count_returned"
    /\ UNCHANGED <<data, pos, iolog, header, mime_types, cluster_pointers,
                   clusters, dirent_pointers, result, overflow_checks, index>>

\* cluster.get_blob_size(i)
GetBlobSize ==
    /\ pc = "cluster_parsed"
    /\ result.err = Ok
    /\ \E i \in Indexes :
          /\ index' = i
          /\ ret' = get_blob_size(result.val, i, overflow_checks)
    /\ pc' = "get_blob_size_returned"
    /\ UNCHANGED <<data, pos, iolog, header, mime_types, cluster_pointers,
                   clusters, dirent_pointers, result, overflow_checks>>

NextCluster == ClusterParse \/ Count \/ GetBlobSize

SpecCluster == InitCluster /\ [][NextCluster]_vars

----------------------------------------------------------------------------
\* Properties of Cluster::parse.

\* Cluster::parse has returned on a source of at least one byte.
ClusterReturned == pc # "cluster_parse" /\ Len(data) >= 1

\* The tag byte's low nibble and its bit 0x10.
Nibble(d) == d[1] % 16
Bit10(d) == (d[1] % 32) >= 16

\* The width the tag selects and the first table element, little-endian.
WidthOf(d) == IF Bit10(d) THEN 8 ELSE 4
FirstValue(d) ==
    IF Bit10(d)
    THEN U64At(d, 1)
    ELSE d[2] + 256 * (d[3] + 256 * (d[4] + 256 * d[5]))

\* C5: Cluster::parse fails with the invalid-compression error exactly when
\* the tag's low nibble is outside 1..5; otherwise a decoded cluster reports
\* the compression the nibble selects and is_extended = bit 0x10 of the tag;
\* and for nibbles 2..5 it succeeds with an empty offset list having read the
\* one tag byte, whether or not a byte follows.
C5_ClusterTag ==
    ClusterReturned =>
        /\ (result.err = InvalidCompressionType <=> Nibble(data) \notin 1..5)
        /\ (result.err = Ok =>
              /\ result.val.compression =
                   <<"None", "Zip", "Bzip2", "Lzma", "Zstd">>[Nibble(data)]
              /\ result.val.is_extended = Bit10(data))
        /\ (Nibble(data) \in 2..5 =>
              /\ result.err = Ok
              /\ result.val.blob_offsets = <<>>
              /\ pos = 1
              /\ iolog = <<ReadOp(0, 1)>>)

\* C5 witness: the tag 0x15 alone decoded as Zstd, extended, no offsets.
C5_Witness ==
    /\ pc = "cluster_parsed"
    /\ data = <<21>>
    /\ result = [err |-> Ok,
                 val |-> [compression |-> "Zstd", is_extended |-> TRUE,
                          blob_offsets |-> <<>>]]

\* An uncompressed cluster was decoded.
UncompressedDecoded ==
    ClusterReturned /\ result.err = Ok /\ result.val.compression = "None"

\* C6: every uncompressed cluster that decodes has as many offsets as its
\* first offset divided by the element width, for every first offset value.
C6_SelfDescribingTable ==
    UncompressedDecoded =>
        Len(result.val.blob_offsets)
            = result.val.blob_offsets[1] \div WidthOf(data)

\* C7: every uncompressed cluster that decodes has consumed 1 + W * (V / W)
\* bytes, and decodes to the same cluster, consuming as many bytes, when the
\* source ends where the table ends.
C7_BytesConsumed ==
    UncompressedDecoded =>
        /\ pos = 1 + WidthOf(data) * (FirstValue(data) \div WidthOf(data))
        /\ LET alone == cluster_parse(SubSeq(data, 1, pos), 0)
           IN  alone.err = Ok /\ alone.val = result.val /\ alone.pos = pos

\* Whatever the first offset, a decoded uncompressed cluster and the bytes
\* consumed do not depend on the bytes behind the bytes consumed.
TrailingBytesIgnored ==
    UncompressedDecoded =>
        LET alone == cluster_parse(SubSeq(data, 1, pos), 0)
        IN  alone.err = Ok /\ alone.val = result.val /\ alone.pos = pos

\* C8: on an uncompressed cluster whose first element can be read,
\* Cluster::parse fails with the too-many-blobs error exactly when V / W
\* exceeds 1,000,000, having read the tag and the first element and nothing
\* more; a count of exactly 1,000,000 passes the guard.
C8_TooManyBlobsGuard ==
    ClusterReturned =>
        /\ (result.err = TooManyBlobs <=>
              /\ Nibble(data) = 1
              /\ Len(data) >= 1 + WidthOf(data)
              /\ FirstValue(data) \div WidthOf(data) > 1000000)
        /\ (result.err = TooManyBlobs =>
              /\ iolog = <<ReadOp(0, 1), ReadOp(1, WidthOf(data))>>
              /\ pos = 1 + WidthOf(data))

\* C8 witness: a count of exactly 1,000,000 passed the guard (the elements
\* it announces are then read, and found missing).
C8_Witness ==
    /\ ClusterReturned
    /\ Nibble(data) = 1
    /\ Len(data) > 1 + WidthOf(data)
    /\ FirstValue(data) \div WidthOf(data) = 1000000
    /\ result.err = ShortRead
    /\ Len(iolog) > 2

C8_WitnessRejected ==
    /\ ClusterReturned
    /\ Len(data) > 1 + WidthOf(data)
    /\ FirstValue(data) \div WidthOf(data) = 1000001
    /\ result.err = TooManyBlobs

\* C9: count() is 0 for an empty offset list and len - 1 otherwise;
\* get_blob_size(i) is offsets[i+1] - offsets[i] when i + 1 < len and None for
\* every other index, so it is defined exactly when i < count(); for every
\* table the decoder produces and every index up to usize::MAX.
C9_BlobAccessors ==
    /\ (pc = "count_returned" =>
          ret = [err |-> Ok,
                 val |-> IF Len(result.val.blob_offsets) = 0 THEN <<0>>
                         ELSE <<Len(result.val.blob_offsets) - 1>>])
    /\ (pc = "get_blob_size_returned" =>
          LET offsets == result.val.blob_offsets
              \* i + 1 < len, for the index the residue `index` stands for
              inRange == index >= 0 /\ index + 1 < Len(offsets)
          IN  /\ ret.err = Ok
              /\ IF inRange
                 THEN /\ Len(ret.val) = 1
                      /\ ret.val[1] >= 0
                      /\ ret.val[1] = offsets[index + 2] - offsets[index + 1]
                 ELSE ret.val = <<>>
              /\ (ret.val # <<>> <=>
                    index >= 0 /\ index < cluster_count(result.val)))

\* What holds of the accessors whatever the build: count() is as stated, and
\* get_blob_size(i) is as stated on every index below usize::MAX whose two
\* offsets do not decrease.
BlobAccessorsInRange ==
    /\ (pc = "count_returned" =>
          ret = [err |-> Ok,
                 val |-> IF Len(result.val.blob_offsets) = 0 THEN <<0>>
                         ELSE <<Len(result.val.blob_offsets) - 1>>])
    /\ (pc = "get_blob_size_returned" /\ index # UsizeMax =>
          LET offsets == result.val.blob_offsets
          IN  IF index + 1 < Len(offsets)
              THEN offsets[index + 2] >= offsets[index + 1] =>
                     ret = [err |-> Ok,
                            val |-> <<offsets[index + 2] - offsets[index + 1]>>]
              ELSE ret = [err |-> Ok, val |-> <<>>])

----------------------------------------------------------------------------
\* Dirent::parse and the accessors of Dirent on their own.

MaxStrLen == 2         \* bytes in a drawn title
MaxExtra == 2          \* the largest extra_len drawn

\* Mime-type codes: two MIME indexes, the three sentinels, the code below
\* them, and two codes that share one byte with a sentinel.
MimeCodes == {0, 1, 65532, 65533, 65534, 65535, 255, 65280}

\* The bytes laid out between the prefix and the URL: none, a redirect index
\* of 500, a cluster number 10 and a blob number 20.
Payloads ==
    {<<>>, to_le_bytes(500, 4), to_le_bytes(10, 4) \o to_le_bytes(20, 4)}

\* 'a' and a lead byte that is ill-formed without its continuation.
StrBytes == {97, 195}
Urls == {<<>>, <<97>>, <<195>>}
Titles == UNION {[1..n -> StrBytes] : n \in 0..MaxStrLen}

DirentPrefix(mime_type, extra_len) ==
    to_le_bytes(mime_type, 2) \o <<extra_len, 67>> \o to_le_bytes(123, 4)

DirentSources ==
    UNION {
      Prefixes(DirentPrefix(m, x) \o payload \o url \o <<0>> \o title \o <<0>>
               \o [i \in 1..x |-> i] \o <<255>>) :
        m \in MimeCodes, x \in 0..MaxExtra, payload \in Payloads,
        url \in Urls, title \in Titles }

InitDirent ==
    /\ data \in DirentSources
    /\ pos = 0
    /\ pc = "dirent_parse"
    /\ iolog = <<>>
    /\ header = NoHeader
    /\ mime_types = <<>>
    /\ cluster_pointers = <<>>
    /\ clusters = <<>>
    /\ dirent_pointers = <<>>
    /\ result = Pending
    /\ overflow_checks = FALSE
    /\ index = 0
    /\ ret = NoRet

\* Dirent::parse(&mut reader)
DirentParse ==
    /\ pc = "dirent_parse"
    /\ LET r == dirent_parse(data, pos) IN
       /\ iolog' = iolog \o r.log
       /\ pos' \in PosAfter(data, r)
       /\ result' = [err |-> r.err, val |-> IF r.err = Ok THEN r.val ELSE None]
    /\ pc' = "dirent_parsed"
    /\ UNCHANGED <<data, header, mime_types, cluster_pointers, clusters,
                   dirent_pointers, overflow_checks, index, ret>>

\* A call of an accessor of the decoded dirent, which returns v.
Accessor(name, v) ==
    /\ pc = "dirent_parsed"
    /\ result.err = Ok
    /\ ret' = [err |-> Ok, val |-> <<v>>]
    /\ pc' = name
    /\ UNCHANGED <<data, pos, iolog, header, mime_types, cluster_pointers,
                   clusters, dirent_pointers, result, overflow_checks, index>>

IsRedirect == Accessor("is_redirect", is_redirect(result.val))
IsLinkTarget == Accessor("is_link_target", is_link_target(result.val))
IsDeleted == Accessor("is_deleted", is_deleted(result.val))
IsArticle == Accessor("is_article", is_article(result.val))
GetTitle == Accessor("get_title", get_title(result.val))

NextDirent ==
    \/ DirentParse
    \/ IsRedirect
    \/ IsLinkTarget
    \/ IsDeleted
    \/ IsArticle
    \/ GetTitle

SpecDirent == InitDirent /\ [][NextDirent]_vars

----------------------------------------------------------------------------
\* Properties of Dirent::parse.

\* Dirent::parse has returned on a source that holds the 8-byte prefix.
DirentReturned == pc # "dirent_parse" /\ Len(data) >= 8

\* The mime-type code of the prefix, little-endian.
MimeCode(d) == d[1] + 256 * d[2]

\* The variant and the payload size the claim gives a code.
VariantOf(code) ==
    IF code = 65535 THEN "Redirect"
    ELSE IF code = 65534 THEN "LinkTarget"
    ELSE IF code = 65533 THEN "Deleted"
    ELSE "Content"

PayloadOf(code) ==
    IF code = 65535 THEN 4
    ELSE IF code \in {65534, 65533} THEN 0
    ELSE 8

\* The little-endian u32 in the 4 bytes of d after position a.
U32At(d, a) == d[a + 1] + 256 * (d[a + 2] + 256 * (d[a + 3] + 256 * d[a + 4]))

\* C10: the variant follows from the 16-bit mime-type code alone: 0xFFFF is
\* Redirect with 4 payload bytes, 0xFFFE LinkTarget and 0xFFFD Deleted with
\* none, every other code Content with 8 (cluster index, then blob index);
\* the URL begins at 8 + 4, 8 + 0 or 8 + 8; and of is_redirect,
\* is_link_target, is_deleted and is_article exactly the one that matches the
\* variant in `data` is true.
C10_DirentVariant ==
    DirentReturned =>
        LET code == MimeCode(data)
            n == PayloadOf(code)
            reads == IF n > 0 THEN 2 ELSE 1
        IN  /\ iolog[1] = ReadOp(0, 8)
            /\ (n > 0 => iolog[2] = ReadOp(8, n))
            /\ (Len(data) >= 8 + n =>
                  Len(iolog) > reads /\ iolog[reads + 1] = ReadOp(8 + n, 1))
            /\ (Len(data) < 8 + n =>
                  Len(iolog) = reads /\ result.err = ShortRead)
            /\ (result.err = Ok =>
                  LET de == result.val IN
                  /\ de.mime_type = code
                  /\ de.data.kind = VariantOf(code)
                  /\ (code = 65535 => de.data.redirect_index = U32At(data, 8))
                  /\ (VariantOf(code) = "Content" =>
                        /\ de.data.cluster_number = U32At(data, 8)
                        /\ de.data.blob_number = U32At(data, 12))
                  /\ is_redirect(de) = (de.data.kind = "Redirect")
                  /\ is_link_target(de) = (de.data.kind = "LinkTarget")
                  /\ is_deleted(de) = (de.data.kind = "Deleted")
                  /\ is_article(de) = (de.data.kind = "Content")
                  /\ (pc = "is_redirect" =>
                        ret.val = <<de.data.kind = "Redirect">>)
                  /\ (pc = "is_link_target" =>
                        ret.val = <<de.data.kind = "LinkTarget">>)
                  /\ (pc = "is_deleted" =>
                        ret.val = <<de.data.kind = "Deleted">>)
                  /\ (pc = "is_article" =>
                        ret.val = <<de.data.kind = "Content">>))

\* C10 witness: a redirect was decoded, its URL read from offset 12, and
\* is_redirect answered.
C10_Witness ==
    /\ pc = "is_redirect"
    /\ MimeCode(data) = 65535
    /\ result.val.data.kind = "Redirect"
    /\ result.val.data.redirect_index = 500
    /\ result.val.url = <<97>>
    /\ ret.val = <<TRUE>>

----------------------------------------------------------------------------
\* Properties of the strings and the parameter block of a dirent.

\* The first position after a that holds 0x00, or 0 when there is none
\* (positions count from 1).
NulAfter(d, a) ==
    LET nuls == {i \in (a + 1)..Len(d) : d[i] = 0}
    IN  IF nuls = {} THEN 0 ELSE Least(nuls)

\* C11: after the payload the URL is the bytes before the first 0x00, the
\* title the bytes before the next 0x00 (possibly none), the parameter block
\* the extra_len bytes that follow (no read when extra_len is 0); a decoded
\* dirent has parameter.len() = extra_len and has consumed
\* 8 + payload + len(url) + 1 + len(title) + 1 + extra_len bytes; and the call
\* fails, returning no dirent, when the source ends before either terminator
\* or before extra_len parameter bytes.
C11_DirentStrings ==
    DirentReturned /\ Len(data) >= 8 + PayloadOf(MimeCode(data)) =>
        LET n == PayloadOf(MimeCode(data))
            extra == data[3]
            z1 == NulAfter(data, 8 + n)
            z2 == IF z1 = 0 THEN 0 ELSE NulAfter(data, z1)
            complete == z1 # 0 /\ z2 # 0 /\ Len(data) >= z2 + extra
        IN  /\ (~complete =>
                  result.err \in {ShortRead, InvalidUtf8} /\ result.val = None)
            /\ (complete => result.err \in {Ok, InvalidUtf8})
            /\ (z1 = 0 => result.err = ShortRead)
            /\ (result.err = Ok =>
                  LET de == result.val IN
                  /\ de.url = SubSeq(data, 8 + n + 1, z1 - 1)
                  /\ de.title = SubSeq(data, z1 + 1, z2 - 1)
                  /\ de.extra_len = extra
                  /\ Len(de.parameter) = extra
                  /\ de.parameter = SubSeq(data, z2 + 1, z2 + extra)
                  /\ pos = 8 + n + Len(de.url) + 1 + Len(de.title) + 1 + extra
                  /\ iolog[Len(iolog)] =
                       IF extra = 0 THEN ReadOp(z2 - 1, 1)
                       ELSE ReadOp(z2, extra))

\* C11 witness: a dirent with an empty title and a two-byte parameter block
\* was decoded, and the byte behind the block left unread.
C11_Witness ==
    /\ pc = "dirent_parsed"
    /\ result.err = Ok
    /\ result.val.url = <<97>>
    /\ result.val.title = <<>>
    /\ result.val.parameter = <<1, 2>>
    /\ pos + 1 = Len(data)

\* C12: get_title returns the URL when the stored title is empty and the
\* stored title otherwise, and leaves the dirent as it was.
C12_GetTitle ==
    [][pc = "dirent_parsed" /\ pc' = "get_title" =>
          /\ result' = result
          /\ (result.val.title = <<>> => ret'.val = <<result.val.url>>)
          /\ (result.val.title # <<>> => ret'.val = <<result.val.title>>)]_vars

\* C12 witness: get_title answered with the URL of a dirent without title.
C12_Witness ==
    /\ pc = "get_title"
    /\ result.val.title = <<>>
    /\ result.val.url = <<97>>
    /\ ret.val = << <<97>> >>

----------------------------------------------------------------------------
\* Properties of parse_bytes as a whole.

\* The five stages run on a source one after the other, each as if the ones
\* before it had succeeded: what each returns.
Stages(d) ==
    LET h == parse_header(d, 0)
        m == parse_mime_types(d, h.pos, h.val)
        cp == parse_cluster_pointers(d, h.val)
        cl == parse_clusters(d, cp.pos, cp.val, 0, <<>>, <<>>)
        dp == parse_dirent_pointers(d, h.val)
    IN  <<h, m, cp, cl, dp>>

\* The first stage that fails, or 0 when none does.
FirstFailed(st) ==
    LET failed == {i \in 1..Len(st) : st[i].err # Ok}
    IN  IF failed = {} THEN 0 ELSE Least(failed)

\* The seeks and reads of the stages 1..n, in order.
RECURSIVE LogsUpTo(_, _)
LogsUpTo(st, n) ==
    IF n = 0 THEN <<>> ELSE LogsUpTo(st, n - 1) \o st[n].log

IsSeek(op) == op[1] = "seek"

\* The order of the stages: each is followed by the next one or by the end
\* of the call.
StageOrder ==
    {<<"parse_header", "parse_mime_types">>,
     <<"parse_mime_types", "parse_cluster_pointers">>,
     <<"parse_cluster_pointers", "parse_clusters">>,
     <<"parse_clusters", "parse_dirent_pointers">>}
    \cup {<<s, "done">> : s \in {"parse_header", "parse_mime_types",
                                  "parse_cluster_pointers", "parse_clusters",
                                  "parse_dirent_pointers"}}

\* What holds when parse_bytes has returned.
ParseBytesReturned ==
    pc = "done" =>
        LET st == Stages(data)
            f == FirstFailed(st)
        IN  /\ result.err = (IF f = 0 THEN Ok ELSE st[f].err)
            /\ (f # 0 => result.val = None)
            /\ iolog = LogsUpTo(st, IF f = 0 THEN Len(st) ELSE f)
            /\ (f = 0 \/ f > 4 =>
                  SelectSeq(st[4].log, IsSeek)
                    = [i \in 1..Len(cluster_pointers) |->
                         SeekOp(cluster_pointers[i])])

\* C13: parse_bytes runs header, MIME table, cluster-pointer table, clusters
\* (one seek to each pointer, in table order), dirent-pointer table in this
\* order; a stage runs only after the ones before it succeeded; the first
\* stage that fails ends the call with its error, no later stage touches the
\* source, and no ZimFile is returned; of several stages that would fail, the
\* earliest one's error is the one reported.
C13_StageOrder ==
    /\ []ParseBytesReturned
    /\ [][ /\ <<pc, pc'>> \in StageOrder
           /\ (pc' # "done" =>
                 LET st == Stages(data) IN
                 \A i \in 1..Len(st) :
                    (<<pc, pc'>> = <<"parse_header", "parse_mime_types">>
                        => i > 1 \/ st[i].err = Ok)
                    /\ (pc' = "parse_cluster_pointers"
                        => i > 2 \/ st[i].err = Ok)
                    /\ (pc' = "parse_clusters" => i > 3 \/ st[i].err = Ok)
                    /\ (pc' = "parse_dirent_pointers"
                        => i > 4 \/ st[i].err = Ok)) ]_vars

\* C13 witness: the MIME list was not terminated and the cluster-pointer
\* table was cut short; the call ended with the MIME stage's error.
C13_Witness ==
    /\ pc = "done"
    /\ header # NoHeader
    /\ result.err = MimeListNotTerminated
    /\ header.cluster_count > 0
    /\ Len(data) < header.cluster_ptr_pos + 8 * header.cluster_count
    /\ Len(iolog) = 3

\* C14: a ZimFile returned by a successful parse_bytes has as many cluster
\* pointers as header.cluster_count, as many clusters as cluster pointers,
\* clusters[i] equal to what Cluster::parse decodes at cluster_pointers[i]
\* (whatever position the cluster before it left), and as many dirent
\* pointers as header.article_count.
C14_ZimFileShape ==
    pc = "done" /\ result.err = Ok =>
        LET z == result.val IN
        /\ Len(z.cluster_pointers) = z.header.cluster_count
        /\ Len(z.clusters) = Len(z.cluster_pointers)
        /\ \A i \in 1..Len(z.cluster_pointers) :
              LET c == cluster_parse(data, z.cluster_pointers[i]) IN
              c.err = Ok /\ z.clusters[i] = c.val
        /\ Len(z.dirent_pointers) = z.header.article_count

\* C14 witness: a returned ZimFile with two clusters of different kinds, the
\* second one not lying at the position the first decode left.
C14_Witness ==
    /\ pc = "done" /\ result.err = Ok
    /\ Len(result.val.clusters) = 2
    /\ result.val.clusters[1].compression # result.val.clusters[2].compression
    /\ cluster_parse(data, result.val.cluster_pointers[1]).pos
         # result.val.cluster_pointers[2]
    /\ Len(result.val.dirent_pointers) = 2

\* C15: when the first offset V of an uncompressed cluster announces
\* count = V / W <= 1,000,000 elements and the source ends before count
\* elements of width W, Cluster::parse fails with the short-read error and
\* returns no cluster; a cluster it returns never has fewer offsets than were
\* announced.
C15_NoSilentTruncation ==
    ClusterReturned /\ Nibble(data) = 1 /\ Len(data) >= 1 + WidthOf(data) =>
        LET count == FirstValue(data) \div WidthOf(data) IN
        /\ (count <= 1000000 /\ Len(data) < 1 + WidthOf(data) * count
              => result.err = ShortRead /\ result.val = None)
        /\ (result.err = Ok
              => /\ Len(result.val.blob_offsets) >= count
                 /\ Len(data) >= 1 + WidthOf(data) * count)

\* C15 witness: a table of more than two elements was announced, the second
\* element was there and a later one was not; the decode failed on it.
C15_Witness ==
    /\ ClusterReturned
    /\ Nibble(data) = 1
    /\ Len(data) >= 1 + 2 * WidthOf(data)
    /\ FirstValue(data) \div WidthOf(data) \in 3..1000
    /\ Len(data) < 1 + WidthOf(data) * (FirstValue(data) \div WidthOf(data))
    /\ result.err = ShortRead
    /\ result.val = None
    /\ Len(iolog) >= 4

====
